---------------------------- MODULE Spec2Model ----------------------------
(***************************************************************************)
(* Workbook history manager of xlsform-ai: the exclusive edit lock, the    *)
(* append-only manifest, immutable snapshots and restore                   *)
(* (templates/base/scripts/history_manager.py), the history command line   *)
(* (form_history.py) and the editing scripts that call into them           *)
(* (add_questions.py, settings_utils.py, translate_form.py,                *)
(* add_metadata.py).                                                       *)
(***************************************************************************)
EXTENDS Integers, Sequences, FiniteSets, TLC

(***************************************************************************)
(* Bounds of the model.                                                    *)
(***************************************************************************)
NumContents == 2    \* distinct byte contents a workbook file can have
MaxTime == 1        \* last UTC second the clock reaches
HexSpace == 2       \* distinct values of uuid4().hex[:8]
MaxManifest == 3    \* lines a manifest file can hold
NumProcs == 2       \* concurrent script processes
MaxRuns == 3        \* script runs started in one behaviour of Spec
MaxCliManifest == 5 \* lines a manifest file can hold in SpecCli
MaxCliRuns == 4     \* script runs started in one behaviour of SpecCli
MaxFaultRuns == 3   \* command runs started in one behaviour of SpecFaults
MaxLogLines == 3    \* lines of a manifest file read in SpecLog, a long tail apart
MaxLongRuns == 2    \* command runs started in one behaviour of SpecLong
MaxLiveRuns == 4    \* acquire_lock calls made in one behaviour of SpecLive
MaxCrashRuns == 3   \* script runs started in one behaviour of SpecCrash

(***************************************************************************)
(* Program constants.                                                      *)
(***************************************************************************)
LATEST_SCAN_LIMIT == 500
DEFAULT_LIST_LIMIT == 20

Absent == 0
Contents == 1..NumContents
Closed == 0
Seconds == 0..MaxTime
Hex8 == 1..HexSpace
Procs == 1..NumProcs

\* The two places a history directory can be derived for one workbook:
\* <workbook parent>/.xlsform-ai/history and <configured project dir>/.xlsform-ai/history
\* when the workbook lies in a subdirectory of the configured project dir.
HistDirs == {"parent", "config"}

NoRev == <<>>
RevIds == Seconds \X Hex8
NoRecord == [record_type |-> "none"]

ActionTypes == {"checkpoint", "add_questions", "update_settings", "translate", "pre_restore"}
BridgeOutcomes == {"ok", "find_fails", "savecopy_fails", "close_fails", "reopen_fails"}

VARIABLES
    now,        \* wall clock, in UTC seconds
    doc,        \* bytes of the target workbook on disk (Absent: no file)
    excel,      \* content of the workbook held open in Excel (Closed: not open)
    lockFile,   \* per history dir: pid written in .edit.lock (Absent: no file)
    manifest,   \* per history dir: the lines of history.jsonl
    snaps,      \* per history dir: bytes of each file under snapshots/
    pc,         \* per process: position in the script it runs
    cmd,        \* per process: the script and its arguments
    runs,       \* script runs started so far
    last        \* outcome of the last history-manager call (observation)

vars == <<now, doc, excel, lockFile, manifest, snaps, pc, cmd, runs, last>>

-----------------------------------------------------------------------------
(***************************************************************************)
(* Pure helpers.                                                           *)
(***************************************************************************)

\* _file_sha256: a digest of the bytes (collision-free on the model's contents).
file_sha256(bytes) == <<"sha256", bytes>>

\* create_snapshot: revision_id = strftime('%Y%m%d%H%M%S') + "-" + uuid4().hex[:8]
revision_id(t, hex) == <<t, hex>>

\* create_snapshot: snapshot_name = f"{revision_id}__{name}" under snapshots/
snapshot_path(rev) == <<"snapshots", rev, "survey.xlsx">>
SnapshotPaths == {snapshot_path(r) : r \in RevIds}

\* json.dumps(record) + "\n" and json.loads(line)
json_dumps(record) == [kind |-> "json", obj |-> record]
json_loads_ok(line) == line.kind = "json"
json_loads(line) == line.obj

IsPrefix(s, t) == Len(s) <= Len(t) /\ SubSeq(t, 1, Len(s)) = s

Reverse(s) == [i \in 1..Len(s) |-> s[Len(s) + 1 - i]]

Max_First(a, b) == a
Max(a, b) == IF a >= b THEN a ELSE b

\* _append_manifest: open(..., "a"); write one line
append_manifest_Truncating(lines, record) == <<json_dumps(record)>>
append_manifest(lines, record) == Append(lines, json_dumps(record))

\* _iter_manifest: parsed records in file order, malformed lines skipped
Yields(line) == line.kind # "blank" /\ json_loads_ok(line)
iter_manifest(lines) ==
    LET kept == SelectSeq(lines, Yields)
    IN  [i \in 1..Len(kept) |-> json_loads(kept[i])]

IsSnapshot(record) == record.record_type = "snapshot"

list_snapshots_OldestFirst(lines, limit) ==
    LET records == SelectSeq(iter_manifest(lines), IsSnapshot)
        n == Max(limit, 1)
    IN  IF Len(records) <= n THEN records ELSE SubSeq(records, 1, n)

\* list_snapshots: snapshot records, newest first, first max(limit, 1) of them
list_snapshots(lines, limit) ==
    LET records == Reverse(SelectSeq(iter_manifest(lines), IsSnapshot))
        n == Max(limit, 1)
    IN  IF Len(records) <= n THEN records ELSE SubSeq(records, 1, n)

\* what json.loads returns for a line that holds a JSON value other than an
\* object, such as [] or 42
NotADict == [json_type |-> "array"]
IsDict(value) == "json_type" \notin DOMAIN value

\* record.get(...): AttributeError on a value that is not a dict
get_raises(value) == ~IsDict(value)

\* how many of the values a loop over them takes record.get of before one
\* raises: all of them when all are dicts
Scanned(records) ==
    LET bad == {i \in 1..Len(records) : get_raises(records[i])}
    IN  IF bad = {} THEN Len(records)
        ELSE (CHOOSE i \in bad : \A j \in bad : i <= j) - 1

\* get_snapshot: first snapshot record in file order with this revision_id
get_snapshot(lines, rev) ==
    LET records == iter_manifest(lines)
        hits == {i \in 1..Scanned(records) :
                    IsSnapshot(records[i]) /\ records[i].revision_id = rev}
    IN  IF hits = {} THEN NoRecord
        ELSE records[CHOOSE i \in hits : \A j \in hits : i <= j]

get_latest_snapshot_NoFilter(lines, include_pre_restore) ==
    LET records == list_snapshots(lines, LATEST_SCAN_LIMIT)
    IN  IF records = <<>> THEN NoRecord ELSE records[1]

\* get_latest_snapshot: first record of list_snapshots(limit=500) that is
\* eligible (any record, or any but pre_restore ones)
get_latest_snapshot(lines, include_pre_restore) ==
    LET records == list_snapshots(lines, LATEST_SCAN_LIMIT)
        hits == {i \in 1..Len(records) :
                    include_pre_restore \/ records[i].action_type # "pre_restore"}
    IN  IF hits = {} THEN NoRecord
        ELSE records[CHOOSE i \in hits : \A j \in hits : i <= j]

\* list_snapshots calls record.get on every value _iter_manifest yields
list_snapshots_raises(lines) ==
    \E i \in 1..Len(iter_manifest(lines)) : get_raises(iter_manifest(lines)[i])

\* get_snapshot raises when its loop reaches a value that is not a dict
\* before a record it returns
get_snapshot_raises(lines, rev) ==
    LET records == iter_manifest(lines)
    IN  /\ Scanned(records) < Len(records)
        /\ \A i \in 1..Scanned(records) :
              ~(IsSnapshot(records[i]) /\ records[i].revision_id = rev)

\* get_latest_snapshot iterates over list_snapshots(limit=500)
get_latest_snapshot_raises(lines) == list_snapshots_raises(lines)

-----------------------------------------------------------------------------
(***************************************************************************)
(* The history manager's operations as functions of the files they touch.  *)
(* fs = [doc, excel, man, snap]: the workbook, the live Excel copy, the    *)
(* manifest lines and the snapshot files of the manager's history dir.     *)
(* t is the clock reading, hex the uuid4().hex[:8] drawn, br what the      *)
(* xlwings bridge does during the call.                                    *)
(***************************************************************************)

\* _find_open_excel_book: a book is found when Excel holds the workbook open
\* and neither the import nor the enumeration raises (both are swallowed)
find_open_excel_book(fs, br) == fs.excel # Closed /\ br # "find_fails"

\* _copy_live_workbook_snapshot: SaveCopyAs of the live book, else copy2
copy_live_workbook_snapshot(fs, path, br) ==
    IF find_open_excel_book(fs, br)
    THEN IF br = "savecopy_fails"
         THEN [ok |-> FALSE, method |-> "excel_savecopyas", fs |-> fs]
         ELSE [ok |-> TRUE, method |-> "excel_savecopyas",
               fs |-> [fs EXCEPT !.snap[path] = fs.excel]]
    ELSE [ok |-> TRUE, method |-> "copy2",
          fs |-> [fs EXCEPT !.snap[path] = fs.doc]]

\* create_snapshot, line 199: snapshot_hash = _file_sha256(snapshot_path)
hash_of_snapshot_ReusesSource(fs, path, source_hash) == source_hash
hash_of_snapshot(fs, path, source_hash) == file_sha256(fs.snap[path])

\* create_snapshot
create_snapshot(fs, t, hex, action_type, details, br) ==
    IF fs.doc = Absent
    THEN [ok |-> FALSE, err |-> "FileNotFoundError", fs |-> fs, record |-> NoRecord]
    ELSE
      LET rev == revision_id(t, hex)
          path == snapshot_path(rev)
          source_hash == file_sha256(fs.doc)
          cp == copy_live_workbook_snapshot(fs, path, br)
      IN  IF ~cp.ok
          THEN [ok |-> FALSE, err |-> "BridgeError", fs |-> cp.fs, record |-> NoRecord]
          ELSE
            LET snapshot_hash == hash_of_snapshot(cp.fs, path, source_hash)
                record == [record_type |-> "snapshot",
                           timestamp |-> t,
                           revision_id |-> rev,
                           action_type |-> action_type,
                           details |-> details,
                           snapshot_path |-> path,
                           source_sha256 |-> source_hash,
                           snapshot_sha256 |-> snapshot_hash,
                           method |-> cp.method]
            IN  [ok |-> TRUE, err |-> "",
                 fs |-> [cp.fs EXCEPT !.man = append_manifest(@, record)],
                 record |-> record]

\* append_event
append_event(fs, t, action_type, details, extra) ==
    LET record == [record_type |-> "event",
                   timestamp |-> t,
                   action_type |-> action_type,
                   details |-> details,
                   restored_from_revision |-> extra.restored_from_revision,
                   restored_sha256 |-> extra.restored_sha256,
                   method |-> extra.method,
                   pre_restore_revision |-> extra.pre_restore_revision]
    IN  [fs |-> [fs EXCEPT !.man = append_manifest(@, record)], record |-> record]

NoExtra == [restored_from_revision |-> NoRev, restored_sha256 |-> <<>>,
            method |-> "", pre_restore_revision |-> NoRev]

RestoreFailure(err, fs) ==
    [ok |-> FALSE, err |-> err, fs |-> fs, restored_from |-> NoRecord,
     restore_event |-> NoRecord, pre_restore_snapshot |-> NoRecord]

\* restore_snapshot, lines 269-278: overwrite the workbook from the snapshot
\* file, through close / copy / reopen when Excel holds the workbook open
overwrite_workbook_KeepDocument(fs, path, br) ==
    [ok |-> TRUE, method |-> "copy2", fs |-> fs]
overwrite_workbook(fs, path, br) ==
    IF find_open_excel_book(fs, br)
    THEN IF br = "close_fails"
         THEN [ok |-> FALSE, method |-> "close_copy_reopen", fs |-> fs]
         ELSE IF br = "reopen_fails"
         THEN [ok |-> FALSE, method |-> "close_copy_reopen",
               fs |-> [fs EXCEPT !.excel = Closed, !.doc = fs.snap[path]]]
         ELSE [ok |-> TRUE, method |-> "close_copy_reopen",
               fs |-> [fs EXCEPT !.excel = fs.snap[path], !.doc = fs.snap[path]]]
    ELSE [ok |-> TRUE, method |-> "copy2",
          fs |-> [fs EXCEPT !.doc = fs.snap[path]]]

\* restore_snapshot, lines 256-258: not snapshot_path.exists()
snapshot_file_missing_Unchecked(fs, record) == FALSE
snapshot_file_missing(fs, record) == fs.snap[record.snapshot_path] = Absent

\* restore_snapshot, line 261: a pre-restore snapshot is taken when asked for
\* and the workbook exists
take_pre_restore_Always(fs, create_pre_restore_snapshot) == fs.doc # Absent
take_pre_restore(fs, create_pre_restore_snapshot) ==
    create_pre_restore_snapshot /\ fs.doc # Absent

\* restore_snapshot
restore_snapshot(fs, t, hex, rev, create_pre_restore_snapshot, br) ==
    LET snapshot_record == get_snapshot(fs.man, rev)
    IN
    IF snapshot_record = NoRecord THEN RestoreFailure("ValueError", fs)
    ELSE IF snapshot_file_missing(fs, snapshot_record)
    THEN RestoreFailure("FileNotFoundError", fs)
    ELSE
      LET take == take_pre_restore(fs, create_pre_restore_snapshot)
          pre == IF take
                 THEN create_snapshot(fs, t, hex, "pre_restore", "target_revision", br)
                 ELSE [ok |-> TRUE, err |-> "", fs |-> fs, record |-> NoRecord]
      IN
      IF ~pre.ok THEN RestoreFailure(pre.err, pre.fs)
      ELSE
        LET ow == overwrite_workbook(pre.fs, snapshot_record.snapshot_path, br)
        IN
        IF ~ow.ok THEN RestoreFailure("BridgeError", ow.fs)
        ELSE
          LET restored_hash == file_sha256(ow.fs.doc)
              ev == append_event(ow.fs, t, "restore", "snapshot",
                        [restored_from_revision |-> rev,
                         restored_sha256 |-> restored_hash,
                         method |-> ow.method,
                         pre_restore_revision |->
                            IF take THEN pre.record.revision_id ELSE NoRev])
          IN  [ok |-> TRUE, err |-> "", fs |-> ev.fs,
               restored_from |-> snapshot_record,
               restore_event |-> ev.record,
               pre_restore_snapshot |-> pre.record]

-----------------------------------------------------------------------------
(***************************************************************************)
(* State access.                                                           *)
(***************************************************************************)

FS(d) == [doc |-> doc, excel |-> excel, man |-> manifest[d], snap |-> snaps[d]]

Commit(d, fs) ==
    /\ doc' = fs.doc
    /\ excel' = fs.excel
    /\ manifest' = [manifest EXCEPT ![d] = fs.man]
    /\ snaps' = [snaps EXCEPT ![d] = fs.snap]

\* What the observation `last` keeps of the history-manager call made in the
\* step just taken (op "none": the step made none): the method, whether it
\* returned (ok) or raised, the revision
\* id it returned (create_snapshot) or was given (restore_snapshot), its
\* create_pre_restore_snapshot argument, the script that made the call, and
\* for the command line's restores the place in a restore / undo / undo
\* sequence (chain) with the workbook bytes before the first restore
\* (origin) and the digest recorded for the revision it restored (rsha).
NoCall ==
    [op |-> "none", ok |-> FALSE, rev |-> NoRev, wantPre |-> FALSE,
     caller |-> "none", chain |-> 0, origin |-> Absent, rsha |-> <<>>,
     arg |-> <<>>, out |-> <<>>]

Called(op, ok, rev, wantPre) ==
    [NoCall EXCEPT !.op = op, !.ok = ok, !.rev = rev, !.wantPre = wantPre,
                   !.caller = "client"]

\* a step that makes no call and leaves the workbook alone keeps the place
\* in the restore / undo sequence
Quiet(l) == [NoCall EXCEPT !.chain = l.chain, !.origin = l.origin, !.rsha = l.rsha]

\* what the xlwings bridge can do during a call: nothing when Excel does
\* not hold the workbook
BridgeBehaviours == IF excel = Closed THEN {"ok"} ELSE BridgeOutcomes

Idle == [name |-> "none", dir |-> "parent", rev |-> NoRev, dry |-> FALSE,
         label |-> "", locked |-> FALSE, raised |-> FALSE, deadline |-> 0]

Init ==
    /\ now = 0
    /\ doc \in Contents
    /\ excel = Closed
    /\ lockFile = [d \in HistDirs |-> Absent]
    /\ manifest = [d \in HistDirs |-> <<>>]
    /\ snaps = [d \in HistDirs |-> [path \in SnapshotPaths |-> Absent]]
    /\ pc = [p \in Procs |-> "idle"]
    /\ cmd = [p \in Procs |-> Idle]
    /\ runs = 0
    /\ last = NoCall

-----------------------------------------------------------------------------
(***************************************************************************)
(* The environment: the clock, the user's Excel, and whoever else writes   *)
(* or removes the workbook file.                                           *)
(***************************************************************************)

\* datetime.now(timezone.utc) advances
Tick ==
    /\ now < MaxTime
    /\ now' = now + 1
    /\ last' = Quiet(last)
    /\ UNCHANGED <<doc, excel, lockFile, manifest, snaps, pc, cmd, runs>>

\* the user opens the workbook in Excel
ExcelOpen ==
    /\ excel = Closed
    /\ doc # Absent
    /\ excel' = doc
    /\ last' = Quiet(last)
    /\ UNCHANGED <<now, doc, lockFile, manifest, snaps, pc, cmd, runs>>

\* the user edits the open workbook without saving
ExcelEdit ==
    /\ excel # Closed
    /\ \E c \in Contents \ {excel} : excel' = c
    /\ last' = Quiet(last)
    /\ UNCHANGED <<now, doc, lockFile, manifest, snaps, pc, cmd, runs>>

\* the user closes the workbook, discarding unsaved edits
ExcelClose ==
    /\ excel # Closed
    /\ excel' = Closed
    /\ last' = Quiet(last)
    /\ UNCHANGED <<now, doc, lockFile, manifest, snaps, pc, cmd, runs>>

-----------------------------------------------------------------------------
(***************************************************************************)
(* A client of WorkbookHistoryManager(xlsform_path) calling its methods in *)
(* any order, and the collaborator that saves the workbook between calls.  *)
(***************************************************************************)
ApiDir == "parent"

ApiCreateSnapshot ==
    /\ Len(manifest[ApiDir]) < MaxManifest
    /\ \E hex \in Hex8, br \in BridgeBehaviours :
         LET r == create_snapshot(FS(ApiDir), now, hex, "checkpoint", "label", br)
         IN  /\ Commit(ApiDir, r.fs)
             /\ last' = Called("create_snapshot", r.ok,
                               IF r.ok THEN r.record.revision_id ELSE NoRev, FALSE)
    /\ UNCHANGED <<now, lockFile, pc, cmd, runs>>

ApiAppendEvent ==
    /\ Len(manifest[ApiDir]) < MaxManifest
    /\ LET r == append_event(FS(ApiDir), now, "note", "label", NoExtra)
       IN  /\ Commit(ApiDir, r.fs)
           /\ last' = Called("append_event", TRUE, NoRev, FALSE)
    /\ UNCHANGED <<now, lockFile, pc, cmd, runs>>

ApiRestoreSnapshot ==
    \E rev \in RevIds, want \in BOOLEAN, hex \in Hex8, br \in BridgeBehaviours :
       /\ Len(manifest[ApiDir]) + (IF want THEN 2 ELSE 1) <= MaxManifest
       /\ LET r == restore_snapshot(FS(ApiDir), now, hex, rev, want, br)
          IN  /\ Commit(ApiDir, r.fs)
              /\ last' = [Called("restore_snapshot", r.ok, rev, r.ok /\ want)
                          EXCEPT !.arg = want]
       /\ UNCHANGED <<now, lockFile, pc, cmd, runs>>

\* list_snapshots, get_snapshot, get_latest_snapshot: they read the manifest
ApiRead ==
    /\ last' = Called("read", TRUE, NoRev, FALSE)
    /\ UNCHANGED <<now, doc, excel, lockFile, manifest, snaps, pc, cmd, runs>>

\* the collaborator saves a changed workbook (wb.save)
DocWrite ==
    /\ \E c \in Contents \ {doc} : doc' = c
    /\ last' = NoCall
    /\ UNCHANGED <<now, excel, lockFile, manifest, snaps, pc, cmd, runs>>

\* the workbook file is removed
DocDelete ==
    /\ doc # Absent
    /\ doc' = Absent
    /\ last' = NoCall
    /\ UNCHANGED <<now, excel, lockFile, manifest, snaps, pc, cmd, runs>>

\* a snapshot file is removed from the snapshots directory (nothing in the
\* program does it; restore_snapshot checks for it)
SnapshotDelete ==
    /\ \E path \in SnapshotPaths :
         /\ snaps[ApiDir][path] # Absent
         /\ snaps' = [snaps EXCEPT ![ApiDir][path] = Absent]
    /\ last' = Quiet(last)
    /\ UNCHANGED <<now, doc, excel, lockFile, manifest, pc, cmd, runs>>

NextApi ==
    \/ ApiCreateSnapshot
    \/ ApiAppendEvent
    \/ ApiRestoreSnapshot
    \/ ApiRead
    \/ DocWrite
    \/ DocDelete
    \/ Tick
    \/ ExcelOpen
    \/ ExcelEdit
    \/ ExcelClose

SpecApi == Init /\ [][NextApi]_vars

\* The same client when snapshot files can go missing and Excel is not
\* running.
NextMissing ==
    \/ ApiCreateSnapshot
    \/ ApiRestoreSnapshot
    \/ DocWrite
    \/ DocDelete
    \/ SnapshotDelete
    \/ Tick

SpecMissing == Init /\ [][NextMissing]_vars

-----------------------------------------------------------------------------
(***************************************************************************)
(* The reading methods on manifest files of any content: records of both   *)
(* types, blank lines and lines that are not JSON, and a manifest that     *)
(* ends with LATEST_SCAN_LIMIT pre_restore snapshots in a row.             *)
(***************************************************************************)

\* the i-th line of a manifest file, by what was written there; a record
\* carries its place in the file as its time
LogLine(kind, i) ==
    CASE kind \in {"checkpoint", "pre_restore"} ->
            json_dumps([record_type |-> "snapshot",
                        timestamp |-> i,
                        revision_id |-> <<i, 1>>,
                        action_type |-> kind,
                        details |-> "label",
                        snapshot_path |-> snapshot_path(<<i, 1>>),
                        source_sha256 |-> file_sha256(1),
                        snapshot_sha256 |-> file_sha256(1),
                        method |-> "copy2"])
      [] kind = "event" ->
            json_dumps([record_type |-> "event",
                        timestamp |-> i,
                        action_type |-> "note",
                        details |-> "label",
                        restored_from_revision |-> NoRev,
                        restored_sha256 |-> <<>>,
                        method |-> "",
                        pre_restore_revision |-> NoRev])
      [] kind = "blank" -> [kind |-> "blank"]
      [] kind = "value" -> json_dumps(NotADict)
      [] OTHER -> [kind |-> "garbage"]

LineKinds == {"checkpoint", "pre_restore", "event", "blank", "garbage"}

\* manifest files of up to MaxLogLines lines
ShortLogs ==
    UNION {{[i \in 1..n |-> LogLine(kinds[i], i)] : kinds \in [1..n -> LineKinds]}
              : n \in 0..MaxLogLines}

\* a manifest file followed by n restores' pre_restore snapshots
WithPreRestores(lines, n) ==
    lines \o [i \in 1..n |-> LogLine("pre_restore", Len(lines) + i)]

LongLogs ==
    {WithPreRestores(lines, n) :
        lines \in {l \in ShortLogs : Len(l) <= 1},
        n \in {LATEST_SCAN_LIMIT - 1, LATEST_SCAN_LIMIT}}

ListLimits == {-1, 0, 1, 2, DEFAULT_LIST_LIMIT}

InitLog ==
    /\ now = 0
    /\ doc = 1
    /\ excel = Closed
    /\ lockFile = [d \in HistDirs |-> Absent]
    /\ manifest \in {[d \in HistDirs |-> IF d = ApiDir THEN lines ELSE <<>>] :
                        lines \in ShortLogs \cup LongLogs}
    /\ snaps = [d \in HistDirs |-> [path \in SnapshotPaths |-> Absent]]
    /\ pc = [p \in Procs |-> "idle"]
    /\ cmd = [p \in Procs |-> Idle]
    /\ runs = 0
    /\ last = NoCall

Read(op, arg, out) ==
    /\ last' = [NoCall EXCEPT !.op = op, !.ok = TRUE, !.caller = "client",
                              !.arg = arg, !.out = out]
    /\ UNCHANGED <<now, doc, excel, lockFile, manifest, snaps, pc, cmd, runs>>

LogListSnapshots ==
    \E limit \in ListLimits :
        Read("list_snapshots", limit, list_snapshots(manifest[ApiDir], limit))

LogGetLatestSnapshot ==
    \E include_pre_restore \in BOOLEAN :
        Read("get_latest_snapshot", include_pre_restore,
             get_latest_snapshot(manifest[ApiDir], include_pre_restore))

NextLog ==
    \/ LogListSnapshots
    \/ LogGetLatestSnapshot

SpecLog == InitLog /\ [][NextLog]_vars

\* The reading methods on manifest files that also hold lines of valid JSON
\* that is not an object.  The file that does not exist reads as the file
\* without lines: _iter_manifest yields nothing for either.
TolerantKinds == LineKinds \cup {"value"}

TolerantLogs ==
    UNION {{[i \in 1..n |-> LogLine(kinds[i], i)] : kinds \in [1..n -> TolerantKinds]}
              : n \in 0..MaxLogLines}

InitTolerant ==
    /\ now = 0
    /\ doc = 1
    /\ excel = Closed
    /\ lockFile = [d \in HistDirs |-> Absent]
    /\ manifest \in {[d \in HistDirs |-> IF d = ApiDir THEN lines ELSE <<>>] :
                        lines \in TolerantLogs}
    /\ snaps = [d \in HistDirs |-> [path \in SnapshotPaths |-> Absent]]
    /\ pc = [p \in Procs |-> "idle"]
    /\ cmd = [p \in Procs |-> Idle]
    /\ runs = 0
    /\ last = NoCall

\* a reading call that raised: nothing is returned
Raise(op, arg) ==
    /\ last' = [NoCall EXCEPT !.op = op, !.ok = FALSE, !.caller = "client",
                              !.arg = arg]
    /\ UNCHANGED <<now, doc, excel, lockFile, manifest, snaps, pc, cmd, runs>>

TolerantListSnapshots ==
    \E limit \in ListLimits :
        IF list_snapshots_raises(manifest[ApiDir])
        THEN Raise("list_snapshots", limit)
        ELSE Read("list_snapshots", limit, list_snapshots(manifest[ApiDir], limit))

TolerantGetSnapshot ==
    \E i \in 1..MaxLogLines :
        IF get_snapshot_raises(manifest[ApiDir], <<i, 1>>)
        THEN Raise("get_snapshot", <<i, 1>>)
        ELSE Read("get_snapshot", <<i, 1>>, get_snapshot(manifest[ApiDir], <<i, 1>>))

TolerantGetLatestSnapshot ==
    \E include_pre_restore \in BOOLEAN :
        IF get_latest_snapshot_raises(manifest[ApiDir])
        THEN Raise("get_latest_snapshot", include_pre_restore)
        ELSE Read("get_latest_snapshot", include_pre_restore,
                  get_latest_snapshot(manifest[ApiDir], include_pre_restore))

NextTolerant ==
    \/ TolerantListSnapshots
    \/ TolerantGetSnapshot
    \/ TolerantGetLatestSnapshot

SpecTolerant == InitTolerant /\ [][NextTolerant]_vars

-----------------------------------------------------------------------------
(***************************************************************************)
(* The scripts, one process each.  pc[p] is the place in the script:       *)
(* "idle" (not running), "acquire" (in acquire_lock's poll loop),          *)
(* "snapshot" (about to call create_snapshot), "load" (translate: about to *)
(* load the workbook and compute its changes), "save" (about to save the   *)
(* workbook), "restore" (about to call restore_snapshot), "release"        *)
(* (about to call release_lock).  b is the budget of the run.              *)
(***************************************************************************)

\* WorkbookHistoryManager.__init__: the history dir is under project_dir,
\* which defaults to the workbook's parent
manager_dir(project_dir) == IF project_dir = "None" THEN "parent" ELSE project_dir

\* add_questions, lines 467-478: project_dir is config.project_dir (the
\* working directory) when the workbook lies under it, else the workbook's
\* parent.  layout says where the workbook lies relative to the working dir.
Layouts == {"in_cwd", "below_cwd", "outside_cwd"}
add_questions_project_dir(layout) ==
    IF layout = "below_cwd" THEN "config" ELSE "parent"

\* The scripts call acquire_lock with its default timeout, which is not
\* counted in clock readings: with deadline 0 the timeout can have elapsed
\* at any attempt that finds the lock file.
Begin(p, name, d, rev, dry, label, at) ==
    /\ runs' = runs + 1
    /\ pc' = [pc EXCEPT ![p] = at]
    /\ cmd' = [cmd EXCEPT ![p] = [name |-> name, dir |-> d, rev |-> rev,
                                  dry |-> dry, label |-> label,
                                  locked |-> FALSE, raised |-> FALSE,
                                  deadline |-> 0]]

Finish(p) ==
    /\ pc' = [pc EXCEPT ![p] = "idle"]
    /\ cmd' = [cmd EXCEPT ![p] = Idle]
    /\ UNCHANGED runs

\* add_questions: manager, acquire_lock, create_snapshot, load, save, release
StartAddQuestions(p, b) ==
    /\ pc[p] = "idle"
    /\ runs < b.runs
    /\ \E layout \in Layouts :
         Begin(p, "add_questions", manager_dir(add_questions_project_dir(layout)),
               NoRev, FALSE, "", "acquire")
    /\ last' = Quiet(last)
    /\ UNCHANGED <<now, doc, excel, lockFile, manifest, snaps>>

\* set_form_settings: returns False when the workbook does not exist
StartSetFormSettings(p, b) ==
    /\ pc[p] = "idle"
    /\ runs < b.runs
    /\ doc # Absent
    /\ Begin(p, "set_form_settings", manager_dir("parent"), NoRev, FALSE, "", "acquire")
    /\ last' = Quiet(last)
    /\ UNCHANGED <<now, doc, excel, lockFile, manifest, snaps>>

\* translate_form.main without --dry-run
StartTranslate(p, b) ==
    /\ pc[p] = "idle"
    /\ runs < b.runs
    /\ doc # Absent
    /\ Begin(p, "translate", manager_dir("parent"), NoRev, FALSE, "", "acquire")
    /\ last' = Quiet(last)
    /\ UNCHANGED <<now, doc, excel, lockFile, manifest, snaps>>

\* add_metadata_fields: loads and saves the workbook, no history manager
StartAddMetadata(p, b) ==
    /\ pc[p] = "idle"
    /\ runs < b.runs
    /\ doc # Absent
    /\ Begin(p, "add_metadata", "parent", NoRev, FALSE, "", "save")
    /\ last' = Quiet(last)
    /\ UNCHANGED <<now, doc, excel, lockFile, manifest, snaps>>

\* cmd_checkpoint
StartCheckpoint(p, b) ==
    /\ pc[p] = "idle"
    /\ runs < b.runs
    /\ doc # Absent
    /\ \E label \in b.labels :
         Begin(p, "checkpoint", manager_dir("None"), NoRev, FALSE, label, "acquire")
    /\ last' = Quiet(last)
    /\ UNCHANGED <<now, doc, excel, lockFile, manifest, snaps>>

\* a command that returns without taking the lock
Return(p) ==
    /\ runs' = runs + 1
    /\ UNCHANGED <<pc, cmd>>

\* what a command invoked with --dry-run leaves to observe: the revision it
\* was to restore and whether it printed the target (exit code 0)
Previewed(l, name, rev, found) ==
    [Quiet(l) EXCEPT !.op = "dry_run", !.ok = found, !.rev = rev, !.caller = name]

\* what a command that returns 1 before it takes the lock leaves to observe
Refused(l, name) ==
    [Quiet(l) EXCEPT !.op = "exit", !.ok = FALSE, !.caller = name]

\* what cmd_list leaves to observe: the records it printed
Listed(l, records) ==
    [Quiet(l) EXCEPT !.op = "list", !.ok = TRUE, !.caller = "list", !.out = records]

\* cmd_list: list_snapshots(limit=args.limit), print the table, return 0
StartList(p, b) ==
    /\ pc[p] = "idle"
    /\ runs < b.runs
    /\ Return(p)
    /\ \E limit \in b.limits :
         last' = Listed(last, list_snapshots(manifest[manager_dir("None")], limit))
    /\ UNCHANGED <<now, doc, excel, lockFile, manifest, snaps>>

\* _restore_by_revision up to the lock: unknown revision returns 1, --dry-run
\* prints and returns 0, else edit_lock is entered
restore_by_revision_IgnoresDryRun(p, name, rev, dry) ==
    IF get_snapshot(manifest[manager_dir("None")], rev) = NoRecord
    THEN Return(p)
    ELSE Begin(p, name, manager_dir("None"), rev, dry, "", "acquire")
restore_by_revision(p, name, rev, dry) ==
    IF get_snapshot(manifest[manager_dir("None")], rev) = NoRecord \/ dry
    THEN Return(p)
    ELSE Begin(p, name, manager_dir("None"), rev, dry, "", "acquire")

\* cmd_restore
StartRestore(p, b) ==
    /\ pc[p] = "idle"
    /\ runs < b.runs
    /\ doc # Absent
    /\ \E rev \in RevIds, dry \in BOOLEAN :
         /\ restore_by_revision(p, "restore", rev, dry)
         /\ last' = IF dry
                     THEN Previewed(last, "restore", rev,
                              get_snapshot(manifest[manager_dir("None")], rev) # NoRecord)
                     ELSE IF get_snapshot(manifest[manager_dir("None")], rev) = NoRecord
                     THEN Refused(last, "restore")
                     ELSE Quiet(last)
    /\ UNCHANGED <<now, doc, excel, lockFile, manifest, snaps>>

\* cmd_restore_last (include_pre_restore = FALSE) and cmd_undo (TRUE)
StartRestoreLatest(p, b) ==
    /\ pc[p] = "idle"
    /\ runs < b.runs
    /\ doc # Absent
    /\ \E name \in {"restore_last", "undo"}, dry \in BOOLEAN :
         LET latest == get_latest_snapshot(manifest[manager_dir("None")], name = "undo")
         IN  /\ IF latest = NoRecord THEN Return(p)
                 ELSE restore_by_revision(p, name, latest.revision_id, dry)
             /\ last' = IF latest = NoRecord THEN Refused(last, name)
                         ELSE IF dry THEN Previewed(last, name, latest.revision_id, TRUE)
                         ELSE Quiet(last)
    /\ UNCHANGED <<now, doc, excel, lockFile, manifest, snaps>>

\* cmd_checkpoint, cmd_restore, cmd_restore_last, cmd_undo: return 1 when
\* the workbook does not exist
StartWithoutFile(p, b) ==
    /\ pc[p] = "idle"
    /\ runs < b.runs
    /\ doc = Absent
    /\ Return(p)
    /\ \E name \in {"checkpoint", "restore", "restore_last", "undo"} :
         last' = Refused(last, name)
    /\ UNCHANGED <<now, doc, excel, lockFile, manifest, snaps>>

\* where each script goes once acquire_lock has returned
AfterAcquire(name) ==
    CASE name \in {"add_questions", "set_form_settings", "checkpoint"} -> "snapshot"
      [] name = "translate" -> "load"
      [] name = "acquire_lock" -> "release"
      [] OTHER -> "restore"

\* acquire_lock, line 71: os.open(O_CREAT | O_EXCL) succeeds only when the
\* lock file does not exist
open_exclusive_NoExcl(d) == TRUE
open_exclusive(d) == lockFile[d] = Absent

\* acquire_lock: one successful pass of the loop
Acquire(p) ==
    /\ pc[p] = "acquire"
    /\ open_exclusive(cmd[p].dir)
    /\ lockFile' = [lockFile EXCEPT ![cmd[p].dir] = p]
    /\ pc' = [pc EXCEPT ![p] = AfterAcquire(cmd[p].name)]
    /\ cmd' = [cmd EXCEPT ![p].locked = TRUE]
    /\ last' = Quiet(last)
    /\ UNCHANGED <<now, doc, excel, manifest, snaps, runs>>

\* what a TimeoutError of acquire_lock leaves to observe: the lock file's
\* contents quoted in its message
TimedOut(l, details) ==
    [Quiet(l) EXCEPT !.op = "acquire_lock", !.ok = FALSE, !.out = details]

\* acquire_lock, line 78: time.time() - started >= timeout_seconds
timeout_elapsed_Never(p) == FALSE
timeout_elapsed(p) == now >= cmd[p].deadline

AcquireTimeout_BreaksLock(p) ==
    /\ pc[p] = "acquire"
    /\ ~open_exclusive(cmd[p].dir)
    /\ timeout_elapsed(p)
    /\ Finish(p)
    /\ last' = TimedOut(last, lockFile[cmd[p].dir])
    /\ lockFile' = [lockFile EXCEPT ![cmd[p].dir] = Absent]
    /\ UNCHANGED <<now, doc, excel, manifest, snaps>>

AcquireTimeout_ThenRelease(p) ==
    /\ pc[p] = "acquire"
    /\ ~open_exclusive(cmd[p].dir)
    /\ timeout_elapsed(p)
    /\ pc' = [pc EXCEPT ![p] = "release"]
    /\ last' = TimedOut(last, lockFile[cmd[p].dir])
    /\ UNCHANGED <<now, doc, excel, lockFile, manifest, snaps, cmd, runs>>

\* acquire_lock: FileExistsError with the timeout elapsed raises TimeoutError
\* with the lock file's text in its message; no script releases a lock it
\* did not acquire
AcquireTimeout(p) ==
    /\ pc[p] = "acquire"
    /\ ~open_exclusive(cmd[p].dir)
    /\ timeout_elapsed(p)
    /\ Finish(p)
    /\ last' = TimedOut(last, lockFile[cmd[p].dir])
    /\ UNCHANGED <<now, doc, excel, lockFile, manifest, snaps>>

SnapshotAction(name) ==
    CASE name = "add_questions" -> "add_questions"
      [] name = "set_form_settings" -> "update_settings"
      [] name = "translate" -> "translate"
      [] OTHER -> "checkpoint"

\* where a script goes after its create_snapshot call: a raise leads to the
\* release_lock of its finally clause, a checkpoint has nothing left to do
after_snapshot_NoFinally(name, ok) ==
    IF ~ok THEN "idle" ELSE IF name # "checkpoint" THEN "save" ELSE "release"
after_snapshot(name, ok) ==
    IF ok /\ name # "checkpoint" THEN "save" ELSE "release"

\* the details each script passes to create_snapshot: the checkpoint's label,
\* or the name of the target file
SnapshotDetails_TargetFile(c) == "target_file"
SnapshotDetails(c) == IF c.name = "checkpoint" THEN c.label ELSE "target_file"

\* the script's create_snapshot call
Snapshot(p, b) ==
    /\ pc[p] = "snapshot"
    /\ Len(manifest[cmd[p].dir]) < b.lines
    /\ \E hex \in Hex8, br \in BridgeBehaviours :
         LET r == create_snapshot(FS(cmd[p].dir), now, hex,
                                  SnapshotAction(cmd[p].name), SnapshotDetails(cmd[p]), br)
         IN  /\ Commit(cmd[p].dir, r.fs)
             /\ last' = [Called("create_snapshot", r.ok,
                                IF r.ok THEN r.record.revision_id ELSE NoRev, FALSE)
                         EXCEPT !.caller = cmd[p].name]
             /\ pc' = [pc EXCEPT ![p] = after_snapshot(cmd[p].name, r.ok)]
             /\ cmd' = [cmd EXCEPT ![p].raised = ~r.ok]
    /\ UNCHANGED <<now, lockFile, runs>>

\* translate_form.main: load the workbook, compute the changes; only
\* total_changes > 0 leads to the snapshot and the save
Load(p) ==
    /\ pc[p] = "load"
    /\ \E total_changes \in 0..1 :
         pc' = [pc EXCEPT ![p] = IF total_changes > 0 THEN "snapshot" ELSE "release"]
    /\ last' = Quiet(last)
    /\ UNCHANGED <<now, doc, excel, lockFile, manifest, snaps, cmd, runs>>

\* wb.save(path): the edited workbook replaces the file
Save(p) ==
    /\ pc[p] = "save"
    /\ \E c \in Contents : doc' = c
    /\ last' = NoCall
    /\ IF cmd[p].locked
       THEN pc' = [pc EXCEPT ![p] = "release"] /\ UNCHANGED <<cmd, runs>>
       ELSE Finish(p)
    /\ UNCHANGED <<now, excel, lockFile, manifest, snaps>>

\* _restore_by_revision, line 111: restore_snapshot(revision_id, True) in edit_lock
Restore(p, b) ==
    /\ pc[p] = "restore"
    /\ Len(manifest[cmd[p].dir]) + 2 <= b.lines
    /\ \E hex \in Hex8, br \in BridgeBehaviours :
         LET r == restore_snapshot(FS(cmd[p].dir), now, hex, cmd[p].rev, TRUE, br)
             took == r.ok /\ r.pre_restore_snapshot # NoRecord
             chain == IF ~took THEN 0
                      ELSE IF cmd[p].name \in {"restore", "restore_last"} THEN 1
                      ELSE IF last.chain \in {1, 2} THEN last.chain + 1
                      ELSE 0
         IN  /\ Commit(cmd[p].dir, r.fs)
             /\ last' = [op |-> "restore_snapshot", ok |-> r.ok,
                         rev |-> IF r.ok THEN cmd[p].rev ELSE NoRev,
                         wantPre |-> r.ok,
                         caller |-> cmd[p].name,
                         chain |-> chain,
                         origin |-> IF chain = 1 THEN doc
                                    ELSE IF chain = 0 THEN Absent ELSE last.origin,
                         rsha |-> IF chain = 1 THEN r.restored_from.snapshot_sha256
                                  ELSE IF chain = 0 THEN <<>> ELSE last.rsha]
             /\ pc' = [pc EXCEPT ![p] = "release"]
             /\ cmd' = [cmd EXCEPT ![p].raised = ~r.ok]
    /\ UNCHANGED <<now, lockFile, runs>>

\* release_lock: unlink the lock file if it exists (no file operation fails
\* in this model, so the swallowed failure of unlink does not occur)
release_lock(d) == [lockFile EXCEPT ![d] = Absent]

\* what leaving the locked part of a script leaves to observe: whether its
\* body returned (ok) or raised
Released(l, raised) ==
    [Quiet(l) EXCEPT !.op = "release_lock", !.ok = ~raised]

\* the finally clause of edit_lock and of the editing scripts
Release(p) ==
    /\ pc[p] = "release"
    /\ lockFile' = release_lock(cmd[p].dir)
    /\ Finish(p)
    /\ last' = Released(last, cmd[p].raised)
    /\ UNCHANGED <<now, doc, excel, manifest, snaps>>

\* the exit code of the command that ended in the step that left l (-1:
\* none did): cmd_list returns 0, a --dry-run 0 when it printed its target,
\* a command refused before the lock 1, a TimeoutError of edit_lock 1, and
\* a command that left edit_lock 1 when its body raised and 0 when it
\* returned
ExitCode(l) ==
    CASE l.op = "list" -> 0
      [] l.op = "dry_run" -> IF l.ok THEN 0 ELSE 1
      [] l.op = "exit" -> 1
      [] l.op = "acquire_lock" -> 1
      [] l.op = "release_lock" -> IF l.ok THEN 0 ELSE 1
      [] OTHER -> -1

\* the budget of a run of concurrent scripts
Budget == [lines |-> MaxManifest, runs |-> MaxRuns, limits |-> {DEFAULT_LIST_LIMIT},
           labels |-> {"label"}]

Next ==
    \/ \E p \in Procs :
        \/ StartAddQuestions(p, Budget)
        \/ StartSetFormSettings(p, Budget)
        \/ StartTranslate(p, Budget)
        \/ StartAddMetadata(p, Budget)
        \/ StartCheckpoint(p, Budget)
        \/ StartRestore(p, Budget)
        \/ StartRestoreLatest(p, Budget)
        \/ StartList(p, Budget)
        \/ Acquire(p)
        \/ AcquireTimeout(p)
        \/ Snapshot(p, Budget)
        \/ Load(p)
        \/ Save(p)
        \/ Restore(p, Budget)
        \/ Release(p)
    \/ Tick

Spec == Init /\ [][Next]_vars

\* One process running the history command line and add_metadata_fields
\* one after the other.
CliBudget == [lines |-> MaxCliManifest, runs |-> MaxCliRuns,
              limits |-> {1, DEFAULT_LIST_LIMIT}, labels |-> {"label", "release v2"}]

NextCli ==
    \/ StartAddMetadata(1, CliBudget)
    \/ StartCheckpoint(1, CliBudget)
    \/ StartRestore(1, CliBudget)
    \/ StartRestoreLatest(1, CliBudget)
    \/ StartList(1, CliBudget)
    \/ Acquire(1)
    \/ Snapshot(1, CliBudget)
    \/ Save(1)
    \/ Restore(1, CliBudget)
    \/ Release(1)
    \/ Tick

SpecCli == Init /\ [][NextCli]_vars

\* One process running checkpoint, restore, restore-last and undo while the
\* user opens and closes the workbook in Excel, saves it or removes it: the runs in
\* which create_snapshot and restore_snapshot can raise inside edit_lock.
FaultBudget == [lines |-> MaxManifest, runs |-> MaxFaultRuns,
                limits |-> {DEFAULT_LIST_LIMIT}, labels |-> {"label"}]

NextFaults ==
    \/ StartWithoutFile(1, FaultBudget)
    \/ StartCheckpoint(1, FaultBudget)
    \/ StartRestore(1, FaultBudget)
    \/ StartRestoreLatest(1, FaultBudget)
    \/ Acquire(1)
    \/ Snapshot(1, FaultBudget)
    \/ Restore(1, FaultBudget)
    \/ Release(1)
    \/ DocWrite
    \/ DocDelete
    \/ ExcelOpen
    \/ ExcelClose

SpecFaults == Init /\ [][NextFaults]_vars

\* One process running restore-last and undo on a workbook whose manifest
\* ends with LATEST_SCAN_LIMIT - 1 or LATEST_SCAN_LIMIT pre_restore snapshots
\* in a row, each with its snapshot file in place.
LongBudget == [lines |-> LATEST_SCAN_LIMIT + 1 + 2 * MaxLongRuns, runs |-> MaxLongRuns,
               limits |-> {DEFAULT_LIST_LIMIT}, labels |-> {"label"}]

LogPaths == {snapshot_path(<<i, 1>>) : i \in 1..(LATEST_SCAN_LIMIT + 1)}

InitLong ==
    /\ now = 0
    /\ doc \in Contents
    /\ excel = Closed
    /\ lockFile = [d \in HistDirs |-> Absent]
    /\ manifest \in {[d \in HistDirs |-> IF d = manager_dir("None") THEN lines ELSE <<>>] :
                        lines \in LongLogs}
    /\ snaps = [d \in HistDirs |->
                  [path \in SnapshotPaths \cup LogPaths |->
                      IF /\ d = manager_dir("None")
                         /\ get_snapshot(manifest[d], path[2]) # NoRecord
                      THEN 1 ELSE Absent]]
    /\ pc = [p \in Procs |-> "idle"]
    /\ cmd = [p \in Procs |-> Idle]
    /\ runs = 0
    /\ last = NoCall

NextLong ==
    \/ StartRestoreLatest(1, LongBudget)
    \/ Acquire(1)
    \/ Restore(1, LongBudget)
    \/ Release(1)

SpecLong == InitLong /\ [][NextLong]_vars

\* a process is killed between acquire_lock and release_lock: its finally
\* clause does not run, and its lock file stays
Crash(p) ==
    /\ cmd[p].locked
    /\ pc' = [pc EXCEPT ![p] = "idle"]
    /\ cmd' = [cmd EXCEPT ![p] = Idle]
    /\ last' = NoCall
    /\ UNCHANGED <<now, doc, excel, lockFile, manifest, snaps, runs>>

\* Concurrent checkpoint and add_questions runs, any of which can be killed
\* while it holds the lock.
CrashBudget == [lines |-> MaxManifest, runs |-> MaxCrashRuns,
                limits |-> {DEFAULT_LIST_LIMIT}, labels |-> {"label"}]

NextCrash ==
    \E p \in Procs :
        \/ StartCheckpoint(p, CrashBudget)
        \/ StartAddQuestions(p, CrashBudget)
        \/ Acquire(p)
        \/ AcquireTimeout(p)
        \/ Snapshot(p, CrashBudget)
        \/ Save(p)
        \/ Release(p)
        \/ Crash(p)

SpecCrash == Init /\ [][NextCrash]_vars

\* Clients that call acquire_lock(timeout_seconds) and later release_lock,
\* or never release: the timeout is counted in clock readings, the clock
\* advances, and a caller in the poll loop gets its next attempt.
Timeouts == 0..MaxTime

\* acquire_lock is entered: started = time.time()
EnterAcquireLock(p) ==
    /\ pc[p] = "idle"
    /\ runs < MaxLiveRuns
    /\ \E timeout_seconds \in Timeouts :
         /\ now + timeout_seconds <= MaxTime
         /\ cmd' = [cmd EXCEPT ![p] = [Idle EXCEPT !.name = "acquire_lock",
                                                   !.dir = manager_dir("None"),
                                                   !.deadline = now + timeout_seconds]]
    /\ runs' = runs + 1
    /\ pc' = [pc EXCEPT ![p] = "acquire"]
    /\ last' = Quiet(last)
    /\ UNCHANGED <<now, doc, excel, lockFile, manifest, snaps>>

NextLive ==
    \/ \E p \in Procs :
        \/ EnterAcquireLock(p)
        \/ Acquire(p)
        \/ AcquireTimeout(p)
        \/ Release(p)
    \/ Tick

SpecLive ==
    /\ Init
    /\ [][NextLive]_vars
    /\ WF_vars(Tick)
    /\ \A p \in Procs : WF_vars(Acquire(p) \/ AcquireTimeout(p))

-----------------------------------------------------------------------------
(***************************************************************************)
(* The edit lock.                                                          *)
(***************************************************************************)

\* p is between acquire_lock's return and its own release_lock
Holds(p) == cmd[p].locked

LockPath(p) == cmd[p].dir

NoTwoHolders ==
    \A p, q \in Procs :
        (p # q /\ Holds(p) /\ Holds(q)) => LockPath(p) # LockPath(q)

\* a caller in acquire_lock's loop while another process holds the lock of
\* the same path stays in the loop or leaves it with TimeoutError
ContendedStep ==
    \A q \in Procs :
        (/\ pc[q] = "acquire"
         /\ \E p \in Procs \ {q} : Holds(p) /\ LockPath(p) = LockPath(q))
        => (pc'[q] \in {"acquire", "idle"} /\ ~cmd'[q].locked)

\* C1: mutual exclusion of acquire_lock.  On one lock path no two processes
\* are at the same time between a successful acquire_lock and their own
\* release_lock, and a caller that finds the lock held keeps polling or
\* fails with TimeoutError.
C1_MutualExclusion == []NoTwoHolders /\ [][ContendedStep]_vars

\* a process holds the lock while another polls for the same lock path
C1_Witness ==
    \E p, q \in Procs :
        /\ p # q
        /\ Holds(p)
        /\ pc[q] = "acquire"
        /\ LockPath(q) = LockPath(p)

\* the scripts that take the edit lock
Locking == {"add_questions", "set_form_settings", "translate", "checkpoint",
            "restore", "restore_last", "undo"}

\* C2: one lock per target document.  All locking scripts running on the
\* workbook derive the same lock and manifest path, at most one lock file
\* exists for the workbook, and no two scripts hold an edit lock on it at
\* the same time.
C2_OneLockPerDocument ==
    /\ \A p, q \in Procs :
          (cmd[p].name \in Locking /\ cmd[q].name \in Locking)
              => LockPath(p) = LockPath(q)
    /\ Cardinality({d \in HistDirs : lockFile[d] # Absent}) <= 1
    /\ \A p, q \in Procs : (Holds(p) /\ Holds(q)) => p = q

\* C3: only the lock holder writes.  A script about to save or restore the
\* workbook, or to append to the manifest, holds the workbook's edit lock.
C3_OnlyLockHolderWrites ==
    \A p \in Procs :
        pc[p] \in {"snapshot", "save", "restore"}
            => (Holds(p) /\ lockFile[LockPath(p)] = p)

-----------------------------------------------------------------------------
(***************************************************************************)
(* Restore and undo from the command line.                                 *)
(***************************************************************************)

\* C10: every restore is reversible.  After a successful command-line
\* restore that took a pre-restore snapshot, an undo that follows with no
\* snapshot or save in between leaves the workbook with the bytes it had
\* before the restore, and a second undo leaves it with the bytes recorded
\* for the restored revision.
C10_RestoreReversible ==
    (last.op = "restore_snapshot" /\ last.ok)
        => /\ last.chain = 2 => doc = last.origin
           /\ last.chain = 3 => file_sha256(doc) = last.rsha

-----------------------------------------------------------------------------
(***************************************************************************)
(* Snapshots, the manifest and restore, for a client of the manager.       *)
(***************************************************************************)

Lines == manifest[ApiDir]
Records == iter_manifest(manifest[ApiDir])
Files == snaps[ApiDir]
LastLine(lines) == lines[Len(lines)].obj

\* C4: a successful create_snapshot leaves the file at the returned
\* snapshot_path in place with the SHA-256 recorded as snapshot_sha256, and
\* has appended exactly one line, the SnapshotRecord with the returned
\* revision_id.
C4_Step ==
    (last'.op = "create_snapshot" /\ last'.ok) =>
        LET after == manifest'[ApiDir]
            record == LastLine(after)
            path == snapshot_path(last'.rev)
        IN  /\ after = Append(Lines, json_dumps(record))
            /\ record.record_type = "snapshot"
            /\ record.revision_id = last'.rev
            /\ record.snapshot_path = path
            /\ snaps'[ApiDir][path] # Absent
            /\ file_sha256(snaps'[ApiDir][path]) = record.snapshot_sha256

C4_SnapshotMatchesRecord == [][C4_Step]_vars

\* a snapshot was just taken of a workbook that Excel holds open with
\* unsaved edits
C4_Witness ==
    /\ last.op = "create_snapshot"
    /\ last.ok
    /\ excel # Closed
    /\ excel # doc
    /\ LastLine(Lines).method = "excel_savecopyas"

\* C5: snapshot immutability.  Every SnapshotRecord of the manifest whose
\* snapshot file exists has the file's SHA-256 as its snapshot_sha256.
C5_SnapshotImmutable ==
    \A i \in 1..Len(Records) :
        (IsSnapshot(Records[i]) /\ Files[Records[i].snapshot_path] # Absent)
            => file_sha256(Files[Records[i].snapshot_path]) = Records[i].snapshot_sha256

\* C6: revision-id uniqueness.  No two SnapshotRecords of the manifest have
\* the same revision_id.
C6_RevisionIdsUnique ==
    \A i, j \in 1..Len(Records) :
        (i # j /\ IsSnapshot(Records[i]) /\ IsSnapshot(Records[j]))
            => Records[i].revision_id # Records[j].revision_id

\* the number of _append_manifest calls a completed call made
Appends(l) ==
    CASE l.op = "create_snapshot" /\ l.ok -> {1}
      [] l.op = "append_event" -> {1}
      [] l.op = "restore_snapshot" /\ l.ok -> IF l.wantPre THEN {1, 2} ELSE {1}
      [] l.op = "restore_snapshot" /\ ~l.ok -> {0, 1}
      [] OTHER -> {0}

\* C7: the manifest is append-only.  Every step leaves the manifest as it
\* was followed by one new line for each append made: one for
\* create_snapshot and append_event, one or two for restore_snapshot, none
\* for the reading methods and for everything else.
C7_Step ==
    /\ IsPrefix(Lines, manifest'[ApiDir])
    /\ Len(manifest'[ApiDir]) - Len(Lines) \in Appends(last')
    /\ (last'.op = "restore_snapshot" /\ last'.ok /\ last'.wantPre /\ doc # Absent)
          => Len(manifest'[ApiDir]) = Len(Lines) + 2

C7_ManifestAppendOnly == [][C7_Step]_vars

\* a record was just appended to a manifest that already held two lines
C7_Witness ==
    /\ last.op \in {"create_snapshot", "append_event"}
    /\ last.ok
    /\ Len(Lines) = 3

\* C8: restore round trip.  After a successful restore_snapshot the
\* workbook's SHA-256 and the restore event's restored_sha256 both equal the
\* snapshot_sha256 recorded for the revision.
C8_RestoreRoundTrip ==
    (last.op = "restore_snapshot" /\ last.ok) =>
        LET record == get_snapshot(Lines, last.rev)
            event == LastLine(Lines)
        IN  /\ file_sha256(doc) = record.snapshot_sha256
            /\ event.restored_sha256 = record.snapshot_sha256

\* the pre_restore SnapshotRecord a restore with a pre-restore snapshot
\* appended: the line before the restore event
PreRestoreRecord(lines) == lines[Len(lines) - 1].obj

RestoredWithPre ==
    /\ last'.op = "restore_snapshot"
    /\ last'.ok
    /\ last'.wantPre
    /\ doc # Absent

\* C9 as claimed: after restore_snapshot(A) with a pre-restore snapshot of
\* an existing workbook, the workbook has the bytes snapshot A had, and the
\* one new SnapshotRecord is a pre_restore one whose file has the bytes the
\* workbook had before the overwrite.
C9_OriginalStep ==
    RestoredWithPre =>
        LET after == manifest'[ApiDir]
            P == PreRestoreRecord(after)
        IN  /\ Len(after) = Len(Lines) + 2
            /\ IsSnapshot(P) /\ P.action_type = "pre_restore"
            /\ LastLine(after).record_type = "event"
            /\ doc' = Files[snapshot_path(last'.rev)]
            /\ snaps'[ApiDir][P.snapshot_path] = doc

C9_AmendedStep ==
    RestoredWithPre =>
        LET after == manifest'[ApiDir]
            P == PreRestoreRecord(after)
        IN  /\ Len(after) = Len(Lines) + 2
            /\ IsSnapshot(P) /\ P.action_type = "pre_restore"
            /\ LastLine(after).record_type = "event"
            /\ doc' = snaps'[ApiDir][snapshot_path(last'.rev)]
            /\ snaps'[ApiDir][P.snapshot_path] =
                  (IF P.method = "copy2" THEN doc ELSE excel)

-----------------------------------------------------------------------------
(***************************************************************************)
(* Failures of restore_snapshot and of the xlwings bridge.                 *)
(***************************************************************************)

\* restore_snapshot was just called with a revision that has no
\* SnapshotRecord, or whose snapshot file is not there
RestoreOfMissing ==
    /\ last'.op = "restore_snapshot"
    /\ \/ get_snapshot(Lines, last'.rev) = NoRecord
       \/ Files[get_snapshot(Lines, last'.rev).snapshot_path] = Absent

\* C11: restore failures change nothing.  restore_snapshot of a revision
\* without a SnapshotRecord, or whose snapshot file is absent, raises and
\* leaves the workbook, the manifest and the snapshot files as they were.
C11_Step ==
    RestoreOfMissing =>
        /\ ~last'.ok
        /\ doc' = doc
        /\ manifest' = manifest
        /\ snaps' = snaps

C11_RestoreFailureChangesNothing == [][C11_Step]_vars

\* a restore of a recorded revision whose snapshot file is gone has just
\* raised, with a workbook in place that a pre-restore snapshot could copy
C11_Witness ==
    /\ last.op = "restore_snapshot"
    /\ ~last.ok
    /\ doc # Absent
    /\ get_snapshot(Lines, last.rev) # NoRecord
    /\ Files[get_snapshot(Lines, last.rev).snapshot_path] = Absent

\* C12: bridge failures are never fatal.  create_snapshot of an existing
\* workbook returns a record, and restore_snapshot of a recorded revision
\* whose snapshot file exists returns, whatever the xlwings bridge does
\* during the call.
C12_Step ==
    /\ (last'.op = "create_snapshot" /\ doc # Absent) => last'.ok
    /\ (last'.op = "restore_snapshot" /\ ~RestoreOfMissing) => last'.ok

C12_BridgeNeverFatal == [][C12_Step]_vars

-----------------------------------------------------------------------------
(***************************************************************************)
(* The history command line.                                               *)
(***************************************************************************)

CliDir == manager_dir("None")

\* the step just taken was `list`, or restore / restore-last / undo with
\* --dry-run
ReadOnlyStep == last'.op \in {"list", "dry_run"}

\* C13: read-only commands mutate nothing and never lock.  `list` and a
\* restore, restore-last or undo with --dry-run leave the lock files, the
\* manifest, the snapshot files and the workbook as they were, never enter
\* acquire_lock, and their result is a function of the manifest alone,
\* whoever holds the lock.
C13_Step ==
    ReadOnlyStep =>
        /\ UNCHANGED <<lockFile, manifest, snaps, doc, excel>>
        /\ UNCHANGED <<pc, cmd>>
        /\ last'.op = "list" =>
              \E limit \in Budget.limits :
                 last'.out = list_snapshots(manifest[CliDir], limit)
        /\ last'.op = "dry_run" =>
              last'.ok = (get_snapshot(manifest[CliDir], last'.rev) # NoRecord)

C13_ReadOnlyCommands == [][C13_Step]_vars

\* a --dry-run restore has just printed its target while another process
\* held the edit lock of the same history directory
C13_Witness ==
    /\ last.op = "dry_run"
    /\ last.ok
    /\ \E q \in Procs : Holds(q) /\ LockPath(q) = CliDir /\ lockFile[CliDir] = q

-----------------------------------------------------------------------------
(***************************************************************************)
(* The reading methods.                                                    *)
(***************************************************************************)

\* the places in a manifest file of the lines that hold a SnapshotRecord
SnapshotLines(lines) ==
    {i \in 1..Len(lines) :
        lines[i].kind = "json" /\ lines[i].obj.record_type = "snapshot"}

\* those an undo (include_pre_restore) or a restore-last can choose
EligibleLines(lines, include_pre_restore) ==
    {i \in SnapshotLines(lines) :
        include_pre_restore \/ lines[i].obj.action_type # "pre_restore"}

Newest(places) == CHOOSE i \in places : \A j \in places : j <= i

\* the i-th newest SnapshotRecord of a manifest file
NthNewest(lines, i) ==
    LET places == SnapshotLines(lines)
    IN  lines[CHOOSE j \in places : Cardinality({k \in places : k > j}) = i - 1].obj

Min(a, b) == IF a <= b THEN a ELSE b

\* C14: get_latest_snapshot(include_pre_restore=False) returns None or a
\* SnapshotRecord whose action_type is not "pre_restore", whatever the
\* manifest holds.
C14_LatestSkipsPreRestore ==
    (last.op = "get_latest_snapshot" /\ last.arg = FALSE) =>
        \/ last.out = NoRecord
        \/ (last.out.record_type = "snapshot" /\ last.out.action_type # "pre_restore")

\* a record was returned from a manifest whose newest snapshot is a
\* pre_restore one
C14_Witness ==
    /\ last.op = "get_latest_snapshot"
    /\ last.arg = FALSE
    /\ last.out # NoRecord
    /\ Lines[Newest(SnapshotLines(Lines))].obj.action_type = "pre_restore"

\* C15: get_latest_snapshot returns the newest eligible record of a manifest
\* of any length: the last-appended SnapshotRecord (include_pre_restore), or
\* the last-appended one that is not a pre_restore snapshot, and None only
\* when the manifest has no eligible SnapshotRecord.
C15_LatestIsNewestEligible ==
    last.op = "get_latest_snapshot" =>
        LET places == EligibleLines(Lines, last.arg)
        IN  last.out = IF places = {} THEN NoRecord ELSE Lines[Newest(places)].obj

Listing == list_snapshots(Lines, DEFAULT_LIST_LIMIT)

\* the listing holds SnapshotRecords only, all of them, in the reverse of
\* their append order
ReverseAppendOrder ==
    /\ \A i \in 1..Len(Listing) : Listing[i].record_type = "snapshot"
    /\ Len(Listing) = Cardinality(SnapshotLines(Lines))
    /\ \A i \in 1..Len(Listing) : Listing[i] = NthNewest(Lines, i)

\* C16 as claimed: on a manifest written by create_snapshot, append_event
\* and restore_snapshot calls, list_snapshots returns SnapshotRecords only,
\* in the reverse of their append order, which is strictly newest first by
\* timestamp.
C16_Original ==
    last.op = "read" =>
        /\ ReverseAppendOrder
        /\ \A i, j \in 1..Len(Listing) :
              i < j => Listing[i].timestamp > Listing[j].timestamp

\* C16 as amended: the same, with timestamps that never increase along the
\* list; records appended at the same clock reading have equal timestamps.
C16_ListNewestFirst ==
    last.op = "read" =>
        /\ ReverseAppendOrder
        /\ \A i, j \in 1..Len(Listing) :
              i < j => Listing[i].timestamp >= Listing[j].timestamp

\* a manifest of an event and two snapshots taken at different clock
\* readings has just been listed
C16_Witness ==
    /\ last.op = "read"
    /\ Len(Listing) = 2
    /\ Len(Lines) = 3
    /\ Listing[1].timestamp > Listing[2].timestamp

-----------------------------------------------------------------------------
(***************************************************************************)
(* Leaving acquire_lock and edit_lock.                                     *)
(***************************************************************************)

\* the step just taken was a TimeoutError of acquire_lock
TimeoutStep == last'.op = "acquire_lock" /\ ~last'.ok

\* C18: a lock timeout is a failure with no state change.  A caller whose
\* acquire_lock finds the lock file there until the timeout gets a
\* TimeoutError quoting the lock file's contents, does not hold the lock
\* afterwards, and leaves the lock file as it was.
C18_Step ==
    TimeoutStep =>
        \E q \in Procs :
            /\ pc[q] = "acquire" /\ pc'[q] = "idle"
            /\ ~cmd'[q].locked
            /\ lockFile[LockPath(q)] \notin {Absent, q}
            /\ last'.out = lockFile[LockPath(q)]
            /\ lockFile' = lockFile
            /\ UNCHANGED <<doc, excel, manifest, snaps>>

C18_TimeoutChangesNothing == [][C18_Step]_vars

\* an acquire_lock has just timed out on a lock whose holder still holds it
C18_Witness ==
    /\ last.op = "acquire_lock"
    /\ ~last.ok
    /\ \E p \in Procs : Holds(p) /\ lockFile[LockPath(p)] = p /\ last.out = p

\* the commands that work inside edit_lock
Scoped == {"checkpoint", "restore", "restore_last", "undo"}

\* a process that is not running a script holds no lock and owns no lock file
IdleOwnsNoLock ==
    \A p \in Procs :
        pc[p] = "idle" => (~Holds(p) /\ \A d \in HistDirs : lockFile[d] # p)

\* a command that entered the body of edit_lock and now returns has left no
\* lock file behind
ScopeLeftStep ==
    \A p \in Procs :
        (cmd[p].name \in Scoped /\ Holds(p) /\ pc'[p] = "idle")
            => (last'.op = "release_lock" /\ lockFile'[LockPath(p)] = Absent)

C20_Step ==
    cmd[1].name = "checkpoint" /\ pc'[1] # pc[1] =>
        /\ doc' = doc
        /\ IF last'.op = "create_snapshot" /\ last'.ok
           THEN LET record == LastLine(manifest'[CliDir])
                IN  /\ manifest' = [manifest EXCEPT
                                       ![CliDir] = Append(@, json_dumps(record))]
                    /\ record.record_type = "snapshot"
                    /\ record.action_type = "checkpoint"
                    /\ record.details = cmd[1].label
           ELSE manifest' = manifest

C20_CheckpointAppendsOne == [][C20_Step]_vars

\* `checkpoint "release v2"` has just appended its record to a manifest that
\* already held lines
C20_Witness ==
    /\ cmd[1].name = "checkpoint"
    /\ cmd[1].label = "release v2"
    /\ last.op = "create_snapshot"
    /\ last.ok
    /\ Len(manifest[CliDir]) >= 2
    /\ LastLine(manifest[CliDir]).details = "release v2"

-----------------------------------------------------------------------------
(***************************************************************************)
(* Restoring twice.                                                        *)
(***************************************************************************)

\* the step just taken was restore_snapshot(R, create_pre_restore_snapshot =
\* False) of a revision R that has a SnapshotRecord and a snapshot file
PlainRestoreOfExisting ==
    /\ last'.op = "restore_snapshot"
    /\ last'.arg = FALSE
    /\ get_snapshot(Lines, last'.rev) # NoRecord
    /\ Files[get_snapshot(Lines, last'.rev).snapshot_path] # Absent

\* the call before it was restore_snapshot(R, False) of the same revision
SecondInARow ==
    /\ last.op = "restore_snapshot"
    /\ last.arg = FALSE
    /\ last.rev = last'.rev

\* C21: restore idempotence.  restore_snapshot(R, False) of an existing
\* revision appends exactly one line, a restore event, and no
\* SnapshotRecord; called twice in a row, the second call leaves the
\* workbook with the bytes the first call left.
C21_Step ==
    PlainRestoreOfExisting =>
        LET after == manifest'[ApiDir]
        IN  /\ after = Append(Lines, json_dumps(LastLine(after)))
            /\ LastLine(after).record_type = "event"
            /\ LastLine(after).action_type = "restore"
            /\ SecondInARow => doc' = doc

C21_RestoreIdempotent == [][C21_Step]_vars

\* The same of the calls that return: a restore_snapshot(R, False) that did
\* not raise has appended its one event, and after a first one that did not
\* raise either it leaves the workbook's bytes as they were.
ReturnedRestoreStep ==
    (PlainRestoreOfExisting /\ last'.ok) =>
        LET after == manifest'[ApiDir]
        IN  /\ after = Append(Lines, json_dumps(LastLine(after)))
            /\ LastLine(after).record_type = "event"
            /\ LastLine(after).action_type = "restore"
            /\ (SecondInARow /\ last.ok) => doc' = doc

IdempotentWhenReturned == [][ReturnedRestoreStep]_vars

-----------------------------------------------------------------------------
(***************************************************************************)
(* The reading methods on malformed manifests.                             *)
(***************************************************************************)

\* the places in a manifest file of the well-formed records: the lines that
\* hold a JSON object
RecordLines(lines) ==
    {i \in 1..Len(lines) : lines[i].kind = "json" /\ IsDict(lines[i].obj)}

\* the well-formed SnapshotRecords of a manifest file
GoodSnapshots(lines) ==
    {i \in RecordLines(lines) : lines[i].obj.record_type = "snapshot"}

\* the i-th newest of them
NthNewestGood(lines, i) ==
    LET places == GoodSnapshots(lines)
    IN  lines[CHOOSE j \in places : Cardinality({k \in places : k > j}) = i - 1].obj

\* what the reading methods return when every malformed line is skipped
SkipsMalformed ==
    /\ last.ok
    /\ last.op = "list_snapshots" =>
          LET n == Min(Max(last.arg, 1), Cardinality(GoodSnapshots(Lines)))
          IN  /\ Len(last.out) = n
              /\ \A i \in 1..n : last.out[i] = NthNewestGood(Lines, i)
    /\ last.op = "get_snapshot" =>
          LET hits == {i \in GoodSnapshots(Lines) : Lines[i].obj.revision_id = last.arg}
          IN  last.out = IF hits = {} THEN NoRecord
                         ELSE Lines[CHOOSE i \in hits : \A j \in hits : i <= j].obj
    /\ last.op = "get_latest_snapshot" =>
          LET hits == {i \in GoodSnapshots(Lines) :
                          last.arg \/ Lines[i].obj.action_type # "pre_restore"}
          IN  last.out = IF hits = {} THEN NoRecord ELSE Lines[Newest(hits)].obj

\* C22: tolerant manifest reader.  Whatever lines the manifest holds (blank,
\* not JSON, JSON that is not an object), list_snapshots, get_snapshot and
\* get_latest_snapshot return, with the well-formed records in file order
\* and the other lines skipped; no manifest reads as an empty one.
C22_TolerantReader ==
    last.op \in {"list_snapshots", "get_snapshot", "get_latest_snapshot"}
        => SkipsMalformed

\* The same of the manifests whose JSON lines all hold objects.
TolerantOfBlankAndGarbage ==
    (/\ last.op \in {"list_snapshots", "get_snapshot", "get_latest_snapshot"}
     /\ \A i \in 1..Len(Lines) : Lines[i].kind = "json" => IsDict(Lines[i].obj))
        => SkipsMalformed

-----------------------------------------------------------------------------
(***************************************************************************)
(* What restore-last and undo restore, and the exit codes.                 *)
(***************************************************************************)

\* the revision of the last-appended SnapshotRecord a command can choose:
\* any for undo, any but a pre_restore one for restore-last (NoRev: none)
TargetOf(name) ==
    LET places == EligibleLines(manifest[CliDir], name = "undo")
    IN  IF places = {} THEN NoRev
        ELSE manifest[CliDir][Newest(places)].obj.revision_id

\* C23: target selection of restore-last and undo.  Run on an existing
\* workbook, restore-last goes on to restore (or with --dry-run prints) the
\* last-appended SnapshotRecord that is not a pre_restore one, and undo the
\* last-appended SnapshotRecord; when there is none the command returns 1
\* and changes nothing.
C23_Step ==
    \A name \in {"restore_last", "undo"} :
        /\ \A p \in Procs :
              (pc[p] = "idle" /\ cmd'[p].name = name)
                  => (TargetOf(name) # NoRev /\ cmd'[p].rev = TargetOf(name))
        /\ (/\ doc # Absent
            /\ last'.caller = name
            /\ last'.op \in {"dry_run", "exit"})
              => /\ last'.rev = TargetOf(name)
                 /\ ExitCode(last') = (IF TargetOf(name) = NoRev THEN 1 ELSE 0)
                 /\ UNCHANGED <<doc, excel, lockFile, manifest, snaps>>

C23_TargetSelection == [][C23_Step]_vars

\* the step just taken ended a history command of process p
Ended(p) == cmd[p].name \in Scoped /\ pc'[p] = "idle"

\* C24: exit codes.  list returns 0; checkpoint, restore, restore-last and
\* undo return 0 exactly when what they were asked for was carried out, and
\* 1 when the workbook or the revision is missing, when acquire_lock times
\* out and when create_snapshot or restore_snapshot raises; a call that
\* raises, and a command refused before the lock, leave the workbook as it
\* was.
C24_Step ==
    /\ last'.op = "list" => ExitCode(last') = 0
    /\ last'.op = "dry_run" => ExitCode(last') = (IF last'.ok THEN 0 ELSE 1)
    /\ last'.op = "exit" =>
          (ExitCode(last') = 1 /\ UNCHANGED <<doc, excel, manifest, snaps, lockFile>>)
    /\ \A p \in Procs :
          /\ (cmd[p].name \in Scoped /\ pc'[p] # pc[p]
                /\ last'.op \in {"create_snapshot", "restore_snapshot"})
                => /\ cmd'[p].raised = ~last'.ok
                   /\ ~last'.ok => doc' = doc
          /\ Ended(p) =>
                ExitCode(last') =
                    (IF last'.op = "acquire_lock" \/ cmd[p].raised THEN 1 ELSE 0)

C24_ExitCodes == [][C24_Step]_vars

-----------------------------------------------------------------------------
(***************************************************************************)
(* Termination of acquire_lock, and locks left behind.                     *)
(***************************************************************************)

\* a caller leaves acquire_lock with the lock when its attempt finds no lock
\* file, whatever its timeout, and with TimeoutError only from an attempt
\* that found the lock file with the timeout elapsed
AttemptStep ==
    \A p \in Procs :
        (pc[p] = "acquire" /\ pc'[p] # "acquire") =>
            IF lockFile[LockPath(p)] = Absent
            THEN cmd'[p].locked /\ lockFile'[LockPath(p)] = p
            ELSE /\ last'.op = "acquire_lock" /\ ~last'.ok
                 /\ now >= cmd[p].deadline

\* C25: acquire_lock always terminates.  Every call makes an exclusive-create
\* attempt before it looks at the time, so that it takes a free lock even
\* with timeout 0, and with the clock advancing every call ends, with the
\* lock or with TimeoutError, whatever the other processes do.
C25_AcquireTerminates ==
    /\ [][AttemptStep]_vars
    /\ \A p \in Procs : (pc[p] = "acquire") ~> (pc[p] # "acquire")

\* a caller has left acquire_lock with TimeoutError after waiting for a
\* lock that its holder still holds
C25_Witness ==
    /\ last.op = "acquire_lock"
    /\ ~last.ok
    /\ now = MaxTime
    /\ \E p \in Procs : Holds(p) /\ lockFile[LockPath(p)] = p
    /\ \E q \in Procs : pc[q] = "idle" /\ ~Holds(q)

\* the lock file of history directory d is there and the process that
\* created it is gone
Orphaned(d) ==
    /\ lockFile[d] # Absent
    /\ ~(Holds(lockFile[d]) /\ LockPath(lockFile[d]) = d)

OrphanStep ==
    \A d \in HistDirs :
        /\ Orphaned(d) =>
              /\ lockFile'[d] = lockFile[d]
              /\ \A q \in Procs :
                    (pc[q] = "acquire" /\ LockPath(q) = d) =>
                        /\ ~cmd'[q].locked
                        /\ pc'[q] # "acquire" =>
                              (pc'[q] = "idle" /\ last'.op = "acquire_lock" /\ ~last'.ok)
        /\ (lockFile[d] # Absent /\ lockFile'[d] = Absent) =>
              (Holds(lockFile[d]) /\ pc[lockFile[d]] = "release")

\* C26: orphaned locks are never reclaimed.  The lock file of a process that
\* stopped between acquire_lock and release_lock stays in every later state,
\* every acquire_lock on its path ends with TimeoutError, and a lock file is
\* only ever removed by the process that created it.
C26_OrphanedLocksStay == [][OrphanStep]_vars

\* an acquire_lock has just timed out on the lock file of a process that is
\* gone
C26_Witness ==
    /\ last.op = "acquire_lock"
    /\ ~last.ok
    /\ \E d \in HistDirs : Orphaned(d) /\ last.out = lockFile[d]

-----------------------------------------------------------------------------
(***************************************************************************)
(* The editing scripts: snapshot before save, release after acquire.       *)
(***************************************************************************)

\* the scripts that snapshot the workbook before they save it
Editing == {"add_questions", "set_form_settings", "translate"}

\* process p saves the workbook in the step
Saves(p) == pc[p] = "save" /\ pc'[p] # "save"

\* C27: pre-change snapshot precedes every save.  When add_questions,
\* set_form_settings or translate saves the workbook it holds the edit lock
\* and has, in this lock hold, appended a SnapshotRecord with its own
\* action_type whose snapshot file has the bytes the workbook has before
\* the save; that record is what restore-last would restore, so that a
\* restore-last after the run gives the workbook its bytes from before the
\* edit.  The lock is released after the save.
C27_Step ==
    \A p \in Procs :
        (cmd[p].name \in Editing /\ Saves(p)) =>
            LET mine == LastLine(manifest[LockPath(p)])
                latest == get_latest_snapshot(manifest[CliDir], FALSE)
            IN  /\ Holds(p) /\ lockFile[LockPath(p)] = p
                /\ pc'[p] = "release"
                /\ mine.record_type = "snapshot"
                /\ mine.action_type = SnapshotAction(cmd[p].name)
                /\ snaps[LockPath(p)][mine.snapshot_path] = doc
                /\ latest = mine
                /\ snaps[CliDir][latest.snapshot_path] = doc

C27_SnapshotBeforeSave == [][C27_Step]_vars

-----------------------------------------------------------------------------
(***************************************************************************)
(* The records a restore leaves.                                           *)
(***************************************************************************)

\* C28: restore step ordering and traceable chain.  A restore_snapshot that
\* returns has appended, when it took a pre-restore snapshot, the pre_restore
\* SnapshotRecord, taken of the workbook as it was before the overwrite, and
\* then the restore event, and nothing else; the event's
\* restored_from_revision is the requested revision and its
\* pre_restore_revision the revision_id of that pre_restore record.  When no
\* pre-restore snapshot was taken only the event is appended, with an empty
\* pre_restore_revision.
C28_Step ==
    (last'.op = "restore_snapshot" /\ last'.ok) =>
        LET after == manifest'[ApiDir]
            E == LastLine(after)
        IN  /\ E.record_type = "event"
            /\ E.action_type = "restore"
            /\ E.restored_from_revision = last'.rev
            /\ IF last'.arg /\ doc # Absent
               THEN LET P == PreRestoreRecord(after)
                    IN  /\ after = Lines \o <<json_dumps(P), json_dumps(E)>>
                        /\ IsSnapshot(P)
                        /\ P.action_type = "pre_restore"
                        /\ P.source_sha256 = file_sha256(doc)
                        /\ E.pre_restore_revision = P.revision_id
               ELSE /\ after = Append(Lines, json_dumps(E))
                    /\ E.pre_restore_revision = NoRev

C28_RestoreChain == [][C28_Step]_vars

\* a restore has just left a pre_restore record and an event that names it
\* and the revision restored, two different revisions
C28_Witness ==
    /\ last.op = "restore_snapshot"
    /\ last.ok
    /\ last.arg
    /\ Len(Lines) = 3
    /\ LastLine(Lines).restored_from_revision = last.rev
    /\ LastLine(Lines).pre_restore_revision = PreRestoreRecord(Lines).revision_id
    /\ PreRestoreRecord(Lines).revision_id # last.rev

\* C29: a process never removes a lock it does not hold.  A run calls
\* release_lock only after its own acquire_lock returned, so that a lock
\* file is only removed by the run that created it; a run whose acquire_lock
\* raises TimeoutError ends there, without release_lock, load or save, and
\* leaves the lock files, the workbook, the manifest and the snapshot files
\* as they were.
C29_Step ==
    /\ \A p \in Procs :
          (pc[p] = "release" /\ pc'[p] # "release")
              => (Holds(p) /\ lockFile[LockPath(p)] = p)
    /\ \A d \in HistDirs :
          (lockFile[d] # Absent /\ lockFile'[d] # lockFile[d])
              => (pc[lockFile[d]] = "release" /\ pc'[lockFile[d]] = "idle")
    /\ \A p \in Procs :
          (pc[p] = "acquire" /\ pc'[p] # "acquire" /\ ~cmd'[p].locked)
              => /\ pc'[p] = "idle"
                 /\ last'.op = "acquire_lock"
                 /\ UNCHANGED <<lockFile, doc, excel, manifest, snaps>>

C29_ReleaseOnlyOwnLock == [][C29_Step]_vars

\* a run has ended with TimeoutError while an editing script that holds the
\* lock is about to save the workbook, its lock file in place
C29_Witness ==
    /\ last.op = "acquire_lock"
    /\ ~last.ok
    /\ \E p \in Procs :
          /\ cmd[p].name \in Editing
          /\ pc[p] = "save"
          /\ Holds(p)
          /\ lockFile[LockPath(p)] = p
          /\ last.out = p
          /\ \E q \in Procs \ {p} : pc[q] = "idle"

\* C30: restore-last and undo restore the snapshot that is latest at the
\* time of the restore.  A restore-last or undo that holds the edit lock and
\* is about to call restore_snapshot passes it the revision of the newest
\* eligible SnapshotRecord the manifest holds at that moment.
C30_RestoresLatestAtRestore ==
    \A p \in Procs :
        (cmd[p].name \in {"restore_last", "undo"} /\ pc[p] = "restore" /\ Holds(p))
            => cmd[p].rev = TargetOf(cmd[p].name)

=============================================================================
